---- MODULE Spec2Model ----
(***************************************************************************)
(* PengyStream: folder watcher, work queue, admission-controlled encoding  *)
(* workers and orphan reconciler (main.py, file_scanner.py, cleanup.py,    *)
(* performance_monitor.py, video_converter.py, config.py).                 *)
(*                                                                         *)
(* A file name is a sequence of tokens.  The token "M" stands for the      *)
(* marker '-PengyStream', "." for the dot, "mkv"/"mp4"/"txt" for the text  *)
(* of an extension, every other token for one character of a stem.  A path *)
(* is a record [dir, name]; the watched folders are flat directories.      *)
(***************************************************************************)
EXTENDS Integers, Sequences, FiniteSets, TLC

VARIABLES
    fs,             \* the filesystem: the set of existing paths
    locked,         \* the paths whose unlink raises
    call,           \* the naming specification: the last call and its result
    copy_if_compatible,  \* config.copy_if_compatible
    shutdown_flag,  \* main.py: shutdown_flag
    queue,          \* main.py: file_queue, a sequence of items [id, path]
    items,          \* items[id]: the path put as item id and what became of it
    workers,        \* each EncodingWorker: [pc, item, probe]
    main,           \* main(): [pc, folder, files, stab]
    obs,            \* the observer thread running VideoFileHandler: [pc, stab]
    changed,        \* the paths written or deleted after an encode of them began
    startup         \* main() up to the initial scan: [pc, env, exit_code]

sysvars == <<startup, copy_if_compatible, shutdown_flag, queue, items, workers, main, obs, changed>>

vars == <<fs, locked, call, sysvars>>

Files == fs

(***************************************************************************)
(* Bounds of the model.                                                    *)
(***************************************************************************)
\* at most this many files in a filesystem the naming specification starts from
MaxFiles == 2

\* at most this many items are put by discovery (initial scan and watcher)
MaxPuts == 2

\* at most this many files are queued by the initial scan of the pool specification
MaxQueued == 3

(***************************************************************************)
(* Configuration (config.py).                                              *)
(***************************************************************************)
\* self.suffix = '-PengyStream'
Marker == <<"M">>

\* self.video_extensions (two of the ten listed extensions)
video_extensions == {<<".", "mp4">>, <<".", "mkv">>}

\* FileScanner.__init__: output_format defaults to 'mp4' and gets its dot
output_format == <<".", "mp4">>

\* config.movie_folders
movie_folders == <<"d1", "d2">>

\* MAX_ENCODES, default '2'
max_encodes == 2

\* CPU_THRESHOLD and GPU_THRESHOLD, default '80'
cpu_threshold == 80

gpu_threshold == 80

(***************************************************************************)
(* pathlib and str helpers.                                                *)
(***************************************************************************)
\* str.rfind: the last index of tok in s, 0 when absent
RECURSIVE RFind(_, _)
RFind(s, tok) ==
    IF s = <<>> THEN 0
    ELSE IF s[Len(s)] = tok THEN Len(s)
    ELSE RFind(SubSeq(s, 1, Len(s) - 1), tok)

\* PurePath.suffix: the text from the last dot, unless that dot is first or last
PathSuffix(name) ==
    LET i == RFind(name, ".")
    IN  IF 1 < i /\ i < Len(name) THEN SubSeq(name, i, Len(name)) ELSE <<>>

\* PurePath.stem: the name without its suffix
PathStem(name) ==
    LET i == RFind(name, ".")
    IN  IF 1 < i /\ i < Len(name) THEN SubSeq(name, 1, i - 1) ELSE name

\* str.lower on the tokens of an extension
Lower(s) ==
    [i \in 1..Len(s) |-> IF s[i] = "MKV" THEN "mkv" ELSE s[i]]

\* str.endswith
EndsWith(s, suf) ==
    /\ Len(s) >= Len(suf)
    /\ SubSeq(s, Len(s) - Len(suf) + 1, Len(s)) = suf

\* fnmatch.translate: the index of the "]" closing the class opened at pat[1],
\* 0 when the class is never closed (the "[" is then a literal)
RECURSIVE ClassScan(_, _)
ClassScan(pat, j) ==
    IF j > Len(pat) THEN 0
    ELSE IF pat[j] = "]" THEN j
    ELSE ClassScan(pat, j + 1)

ClassEnd(pat) ==
    IF Len(pat) >= 2 /\ pat[2] = "]" THEN ClassScan(pat, 3) ELSE ClassScan(pat, 2)

\* fnmatch: does the whole of s match the pattern pat ("*", "?", "[...]")
RECURSIVE GlobMatch(_, _)
GlobMatch(pat, s) ==
    IF pat = <<>> THEN s = <<>>
    ELSE IF Head(pat) = "*"
        THEN \E k \in 0..Len(s) : GlobMatch(Tail(pat), SubSeq(s, k + 1, Len(s)))
    ELSE IF Head(pat) = "?"
        THEN s # <<>> /\ GlobMatch(Tail(pat), Tail(s))
    ELSE IF Head(pat) = "[" /\ ClassEnd(pat) # 0
        THEN /\ s # <<>>
             /\ \E i \in 2..(ClassEnd(pat) - 1) : pat[i] = Head(s)
             /\ GlobMatch(SubSeq(pat, ClassEnd(pat) + 1, Len(pat)), Tail(s))
    ELSE s # <<>> /\ Head(s) = Head(pat) /\ GlobMatch(Tail(pat), Tail(s))

\* Path.exists on the filesystem files (a set of paths)
Exists(p, files) == p \in files

(***************************************************************************)
(* FileScanner (file_scanner.py).                                          *)
(***************************************************************************)
is_video_file(p) == Lower(PathSuffix(p.name)) \in video_extensions

\* is_already_processed that recognizes no marker
is_already_processed_Never(p) == FALSE

is_already_processed(p) == EndsWith(PathStem(p.name), Marker)

\* get_output_path built from the whole name instead of the stem
get_output_path_FromName(p) ==
    [dir |-> p.dir, name |-> p.name \o Marker \o output_format]

get_output_path(p) ==
    [dir |-> p.dir, name |-> PathStem(p.name) \o Marker \o output_format]

has_output_file(p, files) ==
    LET pattern == PathStem(p.name) \o Marker \o <<".", "*">>
    IN  \E f \in files : f.dir = p.dir /\ GlobMatch(pattern, f.name)

\* the directories of the tree of a folder: d and the directories above it
Ancestors(d) ==
    IF d = "d1/s1" THEN {"d1/s1", "d1"}
    ELSE IF d = "d1/s2" THEN {"d1/s2", "d1"}
    ELSE {d}

\* os.walk(folder), onerror=None: the files of the tree of folder, without
\* those below a directory whose listing fails (it is skipped silently)
walk(folder, files, unreadable) ==
    {f \in files : /\ folder \in Ancestors(f.dir)
                   /\ Ancestors(f.dir) \cap unreadable = {}}

\* scan_folder with its try: unreadable are the directories os.walk cannot
\* list, raising the files for which has_output_file (its glob) raises; the
\* except clause around the whole walk returns []
scan_folder_try(folder, files, unreadable, raising) ==
    LET checked == {f \in walk(folder, files, unreadable) :
                        is_video_file(f) /\ ~is_already_processed(f)}
    IN  IF checked \cap raising # {}
        THEN {}
        ELSE {f \in checked : ~has_output_file(f, files)}

\* scan_folder when nothing fails
scan_folder(folder, files) == scan_folder_try(folder, files, {}, {})

should_process(p, files) ==
    /\ is_video_file(p)
    /\ ~is_already_processed(p)
    /\ ~has_output_file(p, files)
    /\ Exists(p, files)

(***************************************************************************)
(* Cleanup (cleanup.py).                                                   *)
(***************************************************************************)
get_original_path(p) ==
    IF EndsWith(PathStem(p.name), Marker)
    THEN [dir  |-> p.dir,
          name |-> SubSeq(PathStem(p.name), 1, Len(PathStem(p.name)) - Len(Marker))
                   \o PathSuffix(p.name)]
    ELSE p

is_pengystream_file(p) ==
    /\ Lower(PathSuffix(p.name)) \in video_extensions
    /\ EndsWith(PathStem(p.name), Marker)

find_orphaned_files(folder, files) ==
    {f \in files : /\ f.dir = folder
                   /\ is_pengystream_file(f)
                   /\ ~Exists(get_original_path(f), files)}

\* CleanupFolder with total_deleted += 1 reached even when unlink raised
CleanupFolder_CountsAttempts(folder, files, lock, dry_run) ==
    LET orphaned == find_orphaned_files(folder, files)
        deleted  == IF dry_run THEN {} ELSE orphaned \ lock
    IN  [files |-> files \ deleted, deleted |-> deleted, count |-> Cardinality(orphaned)]

\* CleanupFolder unlinking the orphans in a dry run too
CleanupFolder_DryRunUnlinks(folder, files, lock, dry_run) ==
    LET orphaned == find_orphaned_files(folder, files)
        deleted  == orphaned \ lock
    IN  [files |-> files \ deleted, deleted |-> deleted, count |-> Cardinality(deleted)]

\* CleanupFolder giving up on a folder when one unlink raises
CleanupFolder_AbortsOnError(folder, files, lock, dry_run) ==
    LET orphaned == find_orphaned_files(folder, files)
        deleted  == IF dry_run \/ orphaned \cap lock # {} THEN {} ELSE orphaned
        counted  == IF dry_run THEN orphaned ELSE deleted
    IN  [files |-> files \ deleted, deleted |-> deleted, count |-> Cardinality(counted)]

\* One folder of cleanup_orphaned_files: the orphans found, and those whose
\* unlink succeeds (unlink raises on a path in lock; dry_run unlinks nothing).
CleanupFolder(folder, files, lock, dry_run) ==
    LET orphaned == find_orphaned_files(folder, files)
        deleted  == IF dry_run THEN {} ELSE orphaned \ lock
        counted  == IF dry_run THEN orphaned ELSE deleted
    IN  [files |-> files \ deleted, deleted |-> deleted, count |-> Cardinality(counted)]

\* cleanup_orphaned_files over folders[i..]: the filesystem left, the files
\* unlinked and total_deleted
RECURSIVE CleanupFrom(_, _, _, _, _)
CleanupFrom(folders, i, files, lock, dry_run) ==
    IF i > Len(folders)
    THEN [files |-> files, deleted |-> {}, count |-> 0]
    ELSE LET one  == CleanupFolder(folders[i], files, lock, dry_run)
             rest == CleanupFrom(folders, i + 1, one.files, lock, dry_run)
         IN  [files   |-> rest.files,
              deleted |-> one.deleted \cup rest.deleted,
              count   |-> one.count + rest.count]

cleanup_orphaned_files(folders, files, lock, dry_run) ==
    CleanupFrom(folders, 1, files, lock, dry_run)

(***************************************************************************)
(* PerformanceMonitor (performance_monitor.py).                            *)
(***************************************************************************)
\* can_encode denying at the threshold itself (>= for >)
can_encode_AtThreshold(cpu_usage, gpu_usage) ==
    IF cpu_usage >= cpu_threshold
    THEN [ok |-> FALSE, reason |-> "CPU usage too high"]
    ELSE IF gpu_usage >= gpu_threshold
    THEN [ok |-> FALSE, reason |-> "GPU usage too high"]
    ELSE [ok |-> TRUE, reason |-> "System resources available"]

can_encode(cpu_usage, gpu_usage) ==
    IF cpu_usage > cpu_threshold
    THEN [ok |-> FALSE, reason |-> "CPU usage too high"]
    ELSE IF gpu_usage > gpu_threshold
    THEN [ok |-> FALSE, reason |-> "GPU usage too high"]
    ELSE [ok |-> TRUE, reason |-> "System resources available"]

(***************************************************************************)
(* VideoConverter (video_converter.py).                                    *)
(***************************************************************************)
\* what get_video_info can return: None, or the streams of the file
VideoInfos ==
    {[has_video |-> TRUE, video_codec |-> "h264", small |-> TRUE,
      has_audio |-> TRUE, audio_codec |-> "aac"],
     [has_video |-> TRUE, video_codec |-> "hevc", small |-> FALSE,
      has_audio |-> TRUE, audio_codec |-> "ac3"]}

\* is_compatible: info.small is info.video_height <= self.max_resolution
is_compatible(info) ==
    [video |-> info.has_video /\ info.video_codec \in {"h264", "avc"} /\ info.small,
     audio |-> info.has_audio /\ info.audio_codec = "aac"]

(***************************************************************************)
(* The idle values of the system's variables.                              *)
(***************************************************************************)
Path(d, n) == [dir |-> d, name |-> n]

NoItem == [id |-> 0]

NoProbe == [ok |-> TRUE, reason |-> "", cpu |-> 0, gpu |-> 0]

NoPath == Path("none", <<>>)

NoStab == [path |-> NoPath, resized |-> FALSE]

Workers == 1..max_encodes

NoCall == [op |-> "none"]

\* the environment of a process whose configuration is valid
ValidEnv == [folders |-> "dir", cpu |-> 80, gpu |-> 80, max_encodes |-> 2]

\* main() has passed its startup: the configuration is loaded and validated
Started == [pc |-> "started", env |-> ValidEnv, exit_code |-> -1]

SysIdle ==
    /\ startup = Started
    /\ copy_if_compatible = TRUE
    /\ shutdown_flag = FALSE
    /\ queue = <<>>
    /\ items = <<>>
    /\ workers = [w \in Workers |-> [pc |-> "new", item |-> NoItem, probe |-> NoProbe]]
    /\ main = [pc |-> "off", folder |-> 0, files |-> {}, stab |-> NoStab]
    /\ obs = [pc |-> "off", stab |-> NoStab]
    /\ changed = {}

(***************************************************************************)
(* The naming specification: the operations above applied, one call at a   *)
(* time, to every small filesystem over Universe.                          *)
(***************************************************************************)
Universe ==
    {Path("d1", s \o m \o <<".", e>>) :
        s \in {<<"a">>, <<"[", "a", "]">>},
        m \in {<<>>, <<"M">>, <<"M", "M">>},
        e \in {"mkv", "mp4"}}
    \cup {Path("d1", <<"a", ".", "txt">>), Path("d1", <<"a", "M", ".", "txt">>),
          Path("d1", <<"a", ".", "MKV">>),
          Path("d2", <<"a", ".", "mkv">>), Path("d2", <<"a", "M", ".", "mp4">>)}

\* further names handed to the naming functions: a hidden file, a trailing dot,
\* a marker in the middle of a stem, two dots
OddPaths ==
    {Path("d1", <<".", "mkv">>), Path("d2", <<"a", ".">>),
     Path("d1", <<"a", "M", "a", ".", "mkv">>), Path("d2", <<"a", ".", "a", ".", "mkv">>)}

InitFs ==
    /\ fs \in {F \in SUBSET Universe : Cardinality(F) <= MaxFiles}
    /\ locked \in {{}} \cup {{p} : p \in Files}
    /\ call = NoCall
    /\ SysIdle

CallScanFolder(folder) ==
    /\ call' = [op |-> "scan_folder", folder |-> folder, ret |-> scan_folder(folder, Files)]
    /\ UNCHANGED <<fs, locked, sysvars>>

CallShouldProcess(p) ==
    /\ call' = [op |-> "should_process", path |-> p, ret |-> should_process(p, Files)]
    /\ UNCHANGED <<fs, locked, sysvars>>

CallNaming(p) ==
    /\ call' = [op |-> "naming", path |-> p, out |-> get_output_path(p),
                back |-> get_original_path(get_output_path(p))]
    /\ UNCHANGED <<fs, locked, sysvars>>

CallCleanup(dry_run) ==
    LET r == cleanup_orphaned_files(movie_folders, Files, locked, dry_run)
    IN  /\ fs' = r.files
        /\ call' = [op |-> "cleanup", dry_run |-> dry_run, before |-> Files,
                    deleted |-> r.deleted, ret |-> r.count,
                    again |-> (call.op = "cleanup" /\ ~call.dry_run),
                    first |-> IF call.op = "cleanup" /\ ~call.dry_run
                              THEN call.deleted ELSE {}]
        /\ UNCHANGED <<locked, sysvars>>

NextFs ==
    \/ \E i \in 1..Len(movie_folders) : CallScanFolder(movie_folders[i])
    \/ \E p \in Universe : CallShouldProcess(p)
    \/ \E p \in Universe \cup OddPaths : CallNaming(p)
    \/ \E d \in BOOLEAN : CallCleanup(d)

SpecFs == InitFs /\ [][NextFs]_vars

(***************************************************************************)
(* The system (main.py): main(), the EncodingWorker threads, the observer  *)
(* thread running VideoFileHandler, the shutdown signal, and the users of  *)
(* the watched folders, who write and delete source files.                 *)
(***************************************************************************)
SysSources == {Path("d1", <<"a", ".", "mkv">>), Path("d1", <<"b", ".", "mp4">>)}

SysPaths == SysSources \cup {get_output_path(p) : p \in SysSources}

\* the items of path p whose fate is one of fates
ItemsOf(p, fates) == {i \in 1..Len(items) : items[i].path = p /\ items[i].fate \in fates}

\* the fates of an item for which convert_video ran the encoder (ffmpeg):
\* running, returned True, returned False; "refused" is a convert_video that
\* returned False before running it, "skipped" an item dropped as ineligible
StartedFates == {"encoding", "done", "failed"}

\* main() after config.validate() and signal.signal(): one source file in the
\* watched folder, with or without its derivative.  main.py:249 reads
\* config.output_format, which config.py does not set; the scanner is modelled
\* with the default output_format of FileScanner.__init__.
Init ==
    /\ \E s \in SysSources : fs \in {{s}, {s, get_output_path(s)}}
    /\ locked = {}
    /\ call = NoCall
    /\ startup = Started
    /\ copy_if_compatible \in BOOLEAN
    /\ shutdown_flag = FALSE
    /\ queue = <<>>
    /\ items = <<>>
    /\ workers = [w \in Workers |-> [pc |-> "new", item |-> NoItem, probe |-> NoProbe]]
    /\ main = [pc |-> "scan", folder |-> 1, files |-> {}, stab |-> NoStab]
    /\ obs = [pc |-> "off", stab |-> NoStab]
    /\ changed = {}

\* Queue.put of a newly discovered path (a new Path object: a new item)
PutNew(p) ==
    /\ queue' = Append(queue, [id |-> Len(items) + 1, path |-> p])
    /\ items' = Append(items, [path |-> p, fate |-> "live"])

\* is_file_stable, up to its sleep: initial_size is sampled (resized records
\* whether the size has changed since), or the file is missing: no sample
FirstSample(p) == IF Exists(p, Files) THEN [path |-> p, resized |-> FALSE] ELSE NoStab

\* an is_file_stable that only looks whether the file is still there
SecondSample_IgnoresSize(stab) == Exists(stab.path, Files)

\* is_file_stable, after its sleep: the file still exists and
\* initial_size == final_size
SecondSample(stab) == Exists(stab.path, Files) /\ ~stab.resized

SetFate(id, fate) == items' = [items EXCEPT ![id].fate = fate]

\* a get that hands out the head and leaves it in the queue
QueueAfterGet_Peek(q) == q

\* a requeue that forgets the put
QueueAfterRequeue_Drop(q, item) == q

\* a requeue that jumps the queue
QueueAfterRequeue_Front(q, item) == <<item>> \o q

\* Queue.get: what is left in the queue once its head is handed out
QueueAfterGet(q) == Tail(q)

\* self.file_queue.put(file_path) of the item a worker holds: the same object
QueueAfterRequeue(q, item) == Append(q, item)

(* main() *)

\* initial_scan: files = scanner.scan_folder(folder)
MainScanFolder ==
    /\ main.pc = "scan"
    /\ main' = [main EXCEPT !.pc = "files",
                            !.files = scan_folder(movie_folders[main.folder], Files)]
    /\ UNCHANGED <<fs, locked, call, startup, copy_if_compatible, shutdown_flag, queue, items,
                   workers, obs, changed>>

\* initial_scan: the next file_path of files enters is_file_stable
MainFirstSample ==
    /\ main.pc = "files"
    /\ Len(items) < MaxPuts
    /\ \E f \in main.files :
          main' = [main EXCEPT !.files = main.files \ {f},
                               !.stab = FirstSample(f),
                               !.pc = IF FirstSample(f) = NoStab THEN "files" ELSE "stab"]
    /\ UNCHANGED <<fs, locked, call, startup, copy_if_compatible, shutdown_flag, queue, items,
                   workers, obs, changed>>

\* initial_scan: is_file_stable returns, and the file is queued if stable
MainSecondSample ==
    /\ main.pc = "stab"
    /\ IF SecondSample(main.stab)
       THEN PutNew(main.stab.path)
       ELSE UNCHANGED <<queue, items>>
    /\ main' = [main EXCEPT !.pc = "files", !.stab = NoStab]
    /\ UNCHANGED <<fs, locked, call, startup, copy_if_compatible, shutdown_flag, workers, obs, changed>>

\* initial_scan: the next folder; after the last one main() goes on
MainNextFolder ==
    /\ main.pc = "files"
    /\ main.files = {}
    /\ main' = IF main.folder < Len(movie_folders)
               THEN [main EXCEPT !.pc = "scan", !.folder = main.folder + 1]
               ELSE [main EXCEPT !.pc = "start_workers", !.folder = 0]
    /\ UNCHANGED <<fs, locked, call, startup, copy_if_compatible, shutdown_flag, queue, items,
                   workers, obs, changed>>

\* main: the workers are created and started
MainStartWorkers ==
    /\ main.pc = "start_workers"
    /\ workers' = [w \in Workers |-> [workers[w] EXCEPT !.pc = "loop"]]
    /\ main' = [main EXCEPT !.pc = "start_observer"]
    /\ UNCHANGED <<fs, locked, call, startup, copy_if_compatible, shutdown_flag, queue, items,
                   obs, changed>>

\* main: observer.start()
MainStartObserver ==
    /\ main.pc = "start_observer"
    /\ obs' = [obs EXCEPT !.pc = "idle"]
    /\ main' = [main EXCEPT !.pc = "loop"]
    /\ UNCHANGED <<fs, locked, call, startup, copy_if_compatible, shutdown_flag, queue, items,
                   workers, changed>>

\* main: while not shutdown_flag.is_set()
MainLoop ==
    /\ main.pc = "loop"
    /\ main' = [main EXCEPT !.pc = IF shutdown_flag THEN "stop_observer" ELSE "tick"]
    /\ UNCHANGED <<fs, locked, call, startup, copy_if_compatible, shutdown_flag, queue, items,
                   workers, obs, changed>>

\* main: the cleanup interval has passed: the periodic cleanup, then the sleep
MainPeriodicCleanup ==
    /\ main.pc = "tick"
    /\ LET r == cleanup_orphaned_files(movie_folders, Files, locked, FALSE)
       IN  fs' = r.files
    /\ main' = [main EXCEPT !.pc = "loop"]
    /\ UNCHANGED <<locked, call, startup, copy_if_compatible, shutdown_flag, queue, items,
                   workers, obs, changed>>

\* main: the cleanup interval has not passed: the sleep only
MainSleep ==
    /\ main.pc = "tick"
    /\ main' = [main EXCEPT !.pc = "loop"]
    /\ UNCHANGED <<fs, locked, call, startup, copy_if_compatible, shutdown_flag, queue, items,
                   workers, obs, changed>>

\* main, finally: observer.stop(): no further event is dispatched; a handler
\* that is running goes on to its end
MainStopObserver ==
    /\ main.pc = "stop_observer"
    /\ obs' = IF obs.pc = "idle" THEN [obs EXCEPT !.pc = "stopped"] ELSE obs
    /\ main' = [main EXCEPT !.pc = "join_observer"]
    /\ UNCHANGED <<fs, locked, call, startup, copy_if_compatible, shutdown_flag, queue, items,
                   workers, changed>>

\* main, finally: observer.join() returns once the observer thread has ended
MainJoinObserver ==
    /\ main.pc = "join_observer"
    /\ obs.pc = "stopped"
    /\ main' = [main EXCEPT !.pc = "join_workers"]
    /\ UNCHANGED <<fs, locked, call, startup, copy_if_compatible, shutdown_flag, queue, items,
                   workers, obs, changed>>

\* a join without timeout: main waits until every worker thread has ended
MainJoinWorkers_Waits ==
    /\ main.pc = "join_workers"
    /\ \A w \in Workers : workers[w].pc = "stopped"
    /\ main' = [main EXCEPT !.pc = "final_cleanup"]
    /\ UNCHANGED <<fs, locked, call, startup, copy_if_compatible, shutdown_flag, queue, items,
                   workers, obs, changed>>

\* main, finally: worker.join(timeout=5) for each worker, finished or not
MainJoinWorkers ==
    /\ main.pc = "join_workers"
    /\ main' = [main EXCEPT !.pc = "final_cleanup"]
    /\ UNCHANGED <<fs, locked, call, startup, copy_if_compatible, shutdown_flag, queue, items,
                   workers, obs, changed>>

\* main, finally: the final cleanup, then return 0
MainFinalCleanup ==
    /\ main.pc = "final_cleanup"
    /\ LET r == cleanup_orphaned_files(movie_folders, Files, locked, FALSE)
       IN  fs' = r.files
    /\ main' = [main EXCEPT !.pc = "done"]
    /\ UNCHANGED <<locked, call, startup, copy_if_compatible, shutdown_flag, queue, items,
                   workers, obs, changed>>

\* signal_handler, installed before the initial scan
Signal ==
    /\ main.pc # "done"
    /\ ~shutdown_flag
    /\ shutdown_flag' = TRUE
    /\ UNCHANGED <<fs, locked, call, startup, copy_if_compatible, queue, items, workers, main,
                   obs, changed>>

(* EncodingWorker.run: the daemon threads live as long as main() *)

Running(w, pc) == main.pc # "done" /\ workers[w].pc = pc

\* while not shutdown_flag.is_set()
WorkerLoop(w) ==
    /\ Running(w, "loop")
    /\ workers' = [workers EXCEPT ![w].pc = IF shutdown_flag THEN "stopped" ELSE "get"]
    /\ UNCHANGED <<fs, locked, call, startup, copy_if_compatible, shutdown_flag, queue, items,
                   main, obs, changed>>

\* file_path = self.file_queue.get(timeout=1)
WorkerGet(w) ==
    /\ Running(w, "get")
    /\ queue # <<>>
    /\ workers' = [workers EXCEPT ![w].pc = "check", ![w].item = Head(queue)]
    /\ queue' = QueueAfterGet(queue)
    /\ UNCHANGED <<fs, locked, call, startup, copy_if_compatible, shutdown_flag, items, main,
                   obs, changed>>

\* except Empty: continue
WorkerGetTimeout(w) ==
    /\ Running(w, "get")
    /\ queue = <<>>
    /\ workers' = [workers EXCEPT ![w].pc = "loop"]
    /\ UNCHANGED <<fs, locked, call, startup, copy_if_compatible, shutdown_flag, queue, items,
                   main, obs, changed>>

\* a worker that goes on to the admission check without should_process
WorkerCheck_NoRevalidation(w) ==
    /\ Running(w, "check")
    /\ workers' = [workers EXCEPT ![w].pc = "admit"]
    /\ UNCHANGED <<fs, locked, call, startup, copy_if_compatible, shutdown_flag, queue,
                   items, main, obs, changed>>

\* if not self.scanner.should_process(file_path): ... continue
WorkerCheck(w) ==
    /\ Running(w, "check")
    /\ IF should_process(workers[w].item.path, Files)
       THEN /\ workers' = [workers EXCEPT ![w].pc = "admit"]
            /\ UNCHANGED items
       ELSE /\ workers' = [workers EXCEPT ![w].pc = "loop", ![w].item = NoItem]
            /\ SetFate(workers[w].item.id, "skipped")
    /\ UNCHANGED <<fs, locked, call, startup, copy_if_compatible, shutdown_flag, queue, main,
                   obs, changed>>

\* can_encode, reason = self.perf_monitor.can_encode()
WorkerAdmission(w) ==
    /\ Running(w, "admit")
    /\ \E cpu \in {80, 95}, gpu \in {0, 81} :
          workers' = [workers EXCEPT
              ![w].pc = "decide",
              ![w].probe = [ok |-> can_encode(cpu, gpu).ok,
                            reason |-> can_encode(cpu, gpu).reason,
                            cpu |-> cpu, gpu |-> gpu]]
    /\ UNCHANGED <<fs, locked, call, startup, copy_if_compatible, shutdown_flag, queue, items,
                   main, obs, changed>>

\* if not can_encode: self.file_queue.put(file_path); then time.sleep(10)
WorkerRequeue(w) ==
    /\ Running(w, "decide")
    /\ ~workers[w].probe.ok
    /\ queue' = QueueAfterRequeue(queue, workers[w].item)
    /\ workers' = [workers EXCEPT ![w].pc = "backoff", ![w].item = NoItem]
    /\ UNCHANGED <<fs, locked, call, startup, copy_if_compatible, shutdown_flag, items, main,
                   obs, changed>>

\* a worker that leaves its loop after the backoff
WorkerBackoff_Stops(w) ==
    /\ Running(w, "backoff")
    /\ workers' = [workers EXCEPT ![w].pc = "stopped", ![w].probe = NoProbe]
    /\ UNCHANGED <<fs, locked, call, startup, copy_if_compatible, shutdown_flag, queue,
                   items, main, obs, changed>>

\* time.sleep(10) is over: continue
WorkerBackoff(w) ==
    /\ Running(w, "backoff")
    /\ workers' = [workers EXCEPT ![w].pc = "loop", ![w].probe = NoProbe]
    /\ UNCHANGED <<fs, locked, call, startup, copy_if_compatible, shutdown_flag, queue, items,
                   main, obs, changed>>

\* convert_video is called and returns False before ffmpeg runs: the probe
\* failed, or both streams are compatible and copy_if_compatible is set
WorkerConvertRefused(w) ==
    /\ Running(w, "decide")
    /\ workers[w].probe.ok
    /\ \E probed \in BOOLEAN, info \in VideoInfos :
          \/ ~probed
          \/ copy_if_compatible /\ is_compatible(info).video /\ is_compatible(info).audio
    /\ SetFate(workers[w].item.id, "refused")
    /\ workers' = [workers EXCEPT ![w].pc = "loop", ![w].item = NoItem,
                                  ![w].probe = NoProbe]
    /\ UNCHANGED <<fs, locked, call, startup, copy_if_compatible, shutdown_flag, queue, main,
                   obs, changed>>

\* a worker that starts ffmpeg and does not wait for it
WorkerConvertStart_Detached(w) ==
    /\ Running(w, "decide")
    /\ workers[w].probe.ok
    /\ LET out == get_output_path(workers[w].item.path)
       IN  fs' = Files \cup {out}
    /\ SetFate(workers[w].item.id, "encoding")
    /\ workers' = [workers EXCEPT ![w].pc = "loop", ![w].item = NoItem,
                                  ![w].probe = NoProbe]
    /\ UNCHANGED <<locked, call, startup, copy_if_compatible, shutdown_flag, queue, main,
                   obs, changed>>

\* convert_video is called and starts ffmpeg -y, which creates the output file
WorkerConvertStart(w) ==
    /\ Running(w, "decide")
    /\ workers[w].probe.ok
    /\ \E info \in VideoInfos :
          ~(copy_if_compatible /\ is_compatible(info).video /\ is_compatible(info).audio)
    /\ LET out == get_output_path(workers[w].item.path)
       IN  fs' = Files \cup {out}
    /\ SetFate(workers[w].item.id, "encoding")
    /\ workers' = [workers EXCEPT ![w].pc = "ffmpeg", ![w].probe = NoProbe]
    /\ UNCHANGED <<locked, call, startup, copy_if_compatible, shutdown_flag, queue, main, obs,
                   changed>>

\* ffmpeg exits with 0: convert_video returns True
WorkerConvertSuccess(w) ==
    /\ Running(w, "ffmpeg")
    /\ SetFate(workers[w].item.id, "done")
    /\ workers' = [workers EXCEPT ![w].pc = "loop", ![w].item = NoItem]
    /\ UNCHANGED <<fs, locked, call, startup, copy_if_compatible, shutdown_flag, queue, main,
                   obs, changed>>

\* a convert_video that leaves the partial output when ffmpeg fails
WorkerConvertFailure_KeepsPartial(w) ==
    /\ Running(w, "ffmpeg")
    /\ SetFate(workers[w].item.id, "failed")
    /\ workers' = [workers EXCEPT ![w].pc = "loop", ![w].item = NoItem]
    /\ UNCHANGED <<fs, locked, call, startup, copy_if_compatible, shutdown_flag, queue,
                   main, obs, changed>>

\* ffmpeg fails: the partial output is unlinked, convert_video returns False
WorkerConvertFailure(w) ==
    /\ Running(w, "ffmpeg")
    /\ LET out == get_output_path(workers[w].item.path)
       IN  fs' = Files \ {out}
    /\ SetFate(workers[w].item.id, "failed")
    /\ workers' = [workers EXCEPT ![w].pc = "loop", ![w].item = NoItem]
    /\ UNCHANGED <<locked, call, startup, copy_if_compatible, shutdown_flag, queue, main, obs,
                   changed>>

(* VideoFileHandler, run by the observer thread one event at a time *)

\* on_created / on_modified: _handle_file up to the sleep of is_file_stable
WatchEvent(p) ==
    /\ main.pc # "done"
    /\ obs.pc = "idle"
    /\ Len(items) < MaxPuts
    /\ should_process(p, Files)
    /\ obs' = [obs EXCEPT !.pc = "stab", !.stab = FirstSample(p)]
    /\ UNCHANGED <<fs, locked, call, startup, copy_if_compatible, shutdown_flag, queue, items,
                   workers, main, changed>>

\* _handle_file: is_file_stable returns, and the file is queued if stable
WatchSecondSample ==
    /\ main.pc # "done"
    /\ obs.pc = "stab"
    /\ IF SecondSample(obs.stab)
       THEN PutNew(obs.stab.path)
       ELSE UNCHANGED <<queue, items>>
    /\ obs' = [obs EXCEPT !.pc = IF main.pc = "join_observer" THEN "stopped" ELSE "idle",
                          !.stab = NoStab]
    /\ UNCHANGED <<fs, locked, call, startup, copy_if_compatible, shutdown_flag, workers, main,
                   changed>>

(* the users of the watched folders *)

NoteChange(p) ==
    changed' = IF ItemsOf(p, StartedFates) # {} THEN changed \cup {p} ELSE changed

\* stab with the size of p changed
Resize(stab, p) == IF stab.path = p THEN [stab EXCEPT !.resized = TRUE] ELSE stab

\* a source file is appended to while is_file_stable sleeps on it
EnvWrite(p) ==
    /\ main.pc # "done"
    /\ Exists(p, Files)
    /\ \/ main.stab.path = p /\ ~main.stab.resized
       \/ obs.stab.path = p /\ ~obs.stab.resized
    /\ main' = [main EXCEPT !.stab = Resize(main.stab, p)]
    /\ obs' = [obs EXCEPT !.stab = Resize(obs.stab, p)]
    /\ NoteChange(p)
    /\ UNCHANGED <<fs, locked, call, startup, copy_if_compatible, shutdown_flag, queue, items,
                   workers>>

\* a source file is deleted
EnvDelete(p) ==
    /\ main.pc # "done"
    /\ Exists(p, Files)
    /\ fs' = Files \ {p}
    /\ NoteChange(p)
    /\ UNCHANGED <<locked, call, startup, copy_if_compatible, shutdown_flag, queue, items,
                   workers, main, obs>>

MainStep ==
    \/ MainScanFolder
    \/ MainFirstSample
    \/ MainSecondSample
    \/ MainNextFolder
    \/ MainStartWorkers
    \/ MainStartObserver
    \/ MainLoop
    \/ MainPeriodicCleanup
    \/ MainSleep
    \/ MainStopObserver
    \/ MainJoinObserver
    \/ MainJoinWorkers
    \/ MainFinalCleanup

WorkerStep(w) ==
    \/ WorkerLoop(w)
    \/ WorkerGet(w)
    \/ WorkerGetTimeout(w)
    \/ WorkerCheck(w)
    \/ WorkerAdmission(w)
    \/ WorkerRequeue(w)
    \/ WorkerBackoff(w)
    \/ WorkerConvertRefused(w)
    \/ WorkerConvertStart(w)
    \/ WorkerConvertSuccess(w)
    \/ WorkerConvertFailure(w)

Next ==
    \/ MainStep
    \/ Signal
    \/ \E w \in Workers : WorkerStep(w)
    \/ \E p \in SysPaths : WatchEvent(p)
    \/ WatchSecondSample
    \/ \E p \in SysSources : EnvWrite(p)
    \/ \E p \in SysSources : EnvDelete(p)

Spec == Init /\ [][Next]_vars

(***************************************************************************)
(* Crash and restart: the process is killed at any point of a run and      *)
(* main() is started again on the filesystem the killed run left.          *)
(***************************************************************************)
\* what the kill makes of an item: an encode that was running is "crashed",
\* an item waiting in the queue or held before its encode is "lost"
FateAfterCrash(fate) ==
    IF fate = "encoding" THEN "crashed"
    ELSE IF fate = "live" THEN "lost"
    ELSE fate

\* the process (its threads and its ffmpeg children) is killed and main() is
\* started again: the queue, the workers and the observer of the killed run
\* are gone, the files (the output of a running ffmpeg among them) are kept
Crash ==
    /\ main.pc # "done"
    /\ Len(items) < MaxPuts
    /\ items' = [i \in 1..Len(items) |->
                    [items[i] EXCEPT !.fate = FateAfterCrash(items[i].fate)]]
    /\ shutdown_flag' = FALSE
    /\ queue' = <<>>
    /\ workers' = [w \in Workers |-> [pc |-> "new", item |-> NoItem, probe |-> NoProbe]]
    /\ main' = [pc |-> "scan", folder |-> 1, files |-> {}, stab |-> NoStab]
    /\ obs' = [pc |-> "off", stab |-> NoStab]
    /\ UNCHANGED <<fs, locked, call, startup, copy_if_compatible, changed>>

NextRestart ==
    \/ Next
    \/ Crash

SpecRestart == Init /\ [][NextRestart]_vars

(***************************************************************************)
(* The worker pool on its own: main() from the end of an initial scan that *)
(* queued up to MaxQueued stable sources, the workers, the main loop and   *)
(* the shutdown; no filesystem event arrives during the run.               *)
(***************************************************************************)
\* the sources in the order the initial scan meets them
PoolOrder ==
    <<Path("d1", <<"a", ".", "mkv">>), Path("d1", <<"b", ".", "mp4">>),
      Path("d2", <<"a", ".", "mkv">>), Path("d2", <<"b", ".", "mp4">>)>>

PoolPaths == {PoolOrder[i] : i \in 1..Len(PoolOrder)}

\* the state after an initial scan that queued the first n files of
\* PoolOrder, for an n up to max
PoolInit(max) ==
    /\ \E n \in 1..max :
          /\ fs = {PoolOrder[i] : i \in 1..n}
          /\ queue = [i \in 1..n |-> [id |-> i, path |-> PoolOrder[i]]]
          /\ items = [i \in 1..n |-> [path |-> PoolOrder[i], fate |-> "live"]]
    /\ locked = {}
    /\ call = NoCall
    /\ startup = Started
    /\ copy_if_compatible \in BOOLEAN
    /\ shutdown_flag = FALSE
    /\ workers = [w \in Workers |-> [pc |-> "new", item |-> NoItem, probe |-> NoProbe]]
    /\ main = [pc |-> "start_workers", folder |-> 0, files |-> {}, stab |-> NoStab]
    /\ obs = [pc |-> "off", stab |-> NoStab]
    /\ changed = {}

InitPool == PoolInit(MaxQueued)

\* main() from the start of the workers on
MainPool ==
    \/ MainStartWorkers
    \/ MainStartObserver
    \/ MainLoop
    \/ MainPeriodicCleanup
    \/ MainSleep
    \/ MainStopObserver
    \/ MainJoinObserver
    \/ MainJoinWorkers
    \/ MainFinalCleanup

NextPool ==
    \/ MainPool
    \/ Signal
    \/ \E w \in Workers : WorkerStep(w)

SpecPool == InitPool /\ [][NextPool]_vars

\* the steps of worker w that are its own: all but the return of ffmpeg
WorkerSchedule(w) ==
    \/ WorkerLoop(w)
    \/ WorkerGet(w)
    \/ WorkerGetTimeout(w)
    \/ WorkerCheck(w)
    \/ WorkerAdmission(w)
    \/ WorkerRequeue(w)
    \/ WorkerBackoff(w)
    \/ WorkerConvertRefused(w)
    \/ WorkerConvertStart(w)

\* main() while shutdown is not signalled
MainRunning ==
    \/ MainStartWorkers
    \/ MainStartObserver
    \/ MainLoop
    \/ MainPeriodicCleanup
    \/ MainSleep

NextPoolLive ==
    \/ MainRunning
    \/ \E w \in Workers : WorkerStep(w)

\* the steps of main() that wait for nothing but the processor (the periodic
\* cleanup is due by the clock)
MainSchedule ==
    \/ MainStartWorkers
    \/ MainStartObserver
    \/ MainLoop
    \/ MainSleep

\* the pool in a run where shutdown is never signalled, its threads
\* scheduled fairly: main() and every worker that can take a step of its own
\* eventually takes one.  subprocess.run has no timeout: nothing makes a
\* running ffmpeg return.
SpecPoolLive ==
    /\ InitPool
    /\ [][NextPoolLive]_vars
    /\ WF_vars(MainSchedule)
    /\ \A w \in Workers : WF_vars(WorkerSchedule(w))

(***************************************************************************)
(* Shutdown: the pool with its watcher, from the start of the workers on,  *)
(* with main() and the observer thread scheduled fairly.                   *)
(***************************************************************************)
\* one file is queued by the initial scan, and a second file is there for
\* the watcher to find
InitShutdown ==
    /\ fs = {PoolOrder[1], PoolOrder[2]}
    /\ queue = <<[id |-> 1, path |-> PoolOrder[1]]>>
    /\ items = <<[path |-> PoolOrder[1], fate |-> "live"]>>
    /\ locked = {}
    /\ call = NoCall
    /\ startup = Started
    /\ copy_if_compatible = TRUE
    /\ shutdown_flag = FALSE
    /\ workers = [w \in Workers |-> [pc |-> "new", item |-> NoItem, probe |-> NoProbe]]
    /\ main = [pc |-> "start_workers", folder |-> 0, files |-> {}, stab |-> NoStab]
    /\ obs = [pc |-> "off", stab |-> NoStab]
    /\ changed = {}

NextShutdown ==
    \/ MainPool
    \/ Signal
    \/ \E w \in Workers : WorkerStep(w)
    \/ \E p \in PoolPaths : WatchEvent(p)
    \/ WatchSecondSample

\* the steps of main() that wait for nothing but the processor or a timeout:
\* the loop and its sleep, observer.stop(), observer.join() once the observer
\* thread has ended, worker.join(timeout=5)
MainShutdownSchedule ==
    \/ MainStartWorkers
    \/ MainStartObserver
    \/ MainLoop
    \/ MainSleep
    \/ MainStopObserver
    \/ MainJoinObserver
    \/ MainJoinWorkers

\* the step that ends main()'s final cleanup: under NextShutdown these are
\* the MainFinalCleanup steps, which only unlink files
MainExits ==
    /\ main.pc = "final_cleanup"
    /\ main' = [main EXCEPT !.pc = "done"]
    /\ fs' \in SUBSET fs
    /\ UNCHANGED <<locked, call, startup, copy_if_compatible, shutdown_flag, queue, items,
                   workers, obs, changed>>

\* main() keeps running, its final cleanup ends, and the handler the observer
\* thread is in returns (is_file_stable sleeps for five seconds); nothing is
\* assumed of the workers or of ffmpeg
SpecShutdown ==
    /\ InitShutdown
    /\ [][NextShutdown]_vars
    /\ WF_vars(MainShutdownSchedule)
    /\ WF_vars(MainExits)
    /\ WF_vars(WatchSecondSample)

(***************************************************************************)
(* scan_folder on folders with subdirectories, where the listing of a      *)
(* directory or the check of a file can fail.                              *)
(***************************************************************************)
ScanDirs == {"d1", "d1/s1", "d1/s2", "d2"}

ScanUniverse ==
    {Path(d, <<"a", ".", "mkv">>) : d \in ScanDirs}
    \cup {Path(d, <<"b", ".", "mp4">>) : d \in ScanDirs}
    \cup {Path("d1/s1", <<"a", "M", ".", "mp4">>), Path("d1/s2", <<"c", ".", "txt">>)}

InitScan ==
    /\ fs \in {F \in SUBSET ScanUniverse : Cardinality(F) <= MaxFiles}
    /\ locked = {}
    /\ call = NoCall
    /\ SysIdle

\* files = scanner.scan_folder(folder), with at most one directory that
\* cannot be listed and at most one file whose check raises
CallScanFolderTry(folder, unreadable, raising) ==
    /\ call' = [op |-> "scan_folder", folder |-> folder, unreadable |-> unreadable,
                raising |-> raising,
                ret |-> scan_folder_try(folder, Files, unreadable, raising)]
    /\ UNCHANGED <<fs, locked, sysvars>>

NextScan ==
    \E i \in 1..Len(movie_folders) :
        \E unreadable \in {{}} \cup {{d} : d \in ScanDirs} :
            \E raising \in {{}} \cup {{f} : f \in Files} :
                CallScanFolderTry(movie_folders[i], unreadable, raising)

SpecScan == InitScan /\ [][NextScan]_vars

(***************************************************************************)
(* The pool with exceptions: a call a worker makes for the item it holds   *)
(* raises, and the except clause of EncodingWorker.run handles it.         *)
(***************************************************************************)
\* where run() can be when an Exception reaches its except clause:
\* should_process raised (exists, is_file and the glob of has_output_file
\* are not guarded), can_encode raised (psutil.cpu_percent is not guarded),
\* or convert_video raised (the unlink of the partial output in its own
\* except clauses)
RaisingCalls == {"check", "admit", "ffmpeg"}

\* a worker whose thread dies of the exception
WorkerError_Kills(w) ==
    /\ \E pc \in RaisingCalls : Running(w, pc)
    /\ SetFate(workers[w].item.id, "error")
    /\ workers' = [workers EXCEPT ![w].pc = "stopped", ![w].item = NoItem,
                                  ![w].probe = NoProbe]
    /\ UNCHANGED <<fs, locked, call, startup, copy_if_compatible, shutdown_flag, queue,
                   main, obs, changed>>

\* except Exception as e: the error is logged, task_done() is called for the
\* item, and the while loop goes on; the item is not put back
WorkerError(w) ==
    /\ \E pc \in RaisingCalls : Running(w, pc)
    /\ SetFate(workers[w].item.id, "error")
    /\ workers' = [workers EXCEPT ![w].pc = "loop", ![w].item = NoItem,
                                  ![w].probe = NoProbe]
    /\ UNCHANGED <<fs, locked, call, startup, copy_if_compatible, shutdown_flag, queue,
                   main, obs, changed>>

NextFaults ==
    \/ NextPool
    \/ \E w \in Workers : WorkerError(w)

\* the workers start with up to MaxPuts files in the queue
InitFaults == PoolInit(MaxPuts)

SpecFaults == InitFaults /\ [][NextFaults]_vars

(***************************************************************************)
(* convert_video (video_converter.py) called on one eligible source at a   *)
(* time, with every outcome of ffprobe and both exit statuses of ffmpeg.   *)
(***************************************************************************)
\* what get_video_info builds from ffprobe's streams: without a stream of a
\* kind the codec is '' (and the height 0)
ProbedInfos ==
    {i \in [has_video : BOOLEAN, video_codec : {"h264", "avc", "hevc", ""},
            small : BOOLEAN, has_audio : BOOLEAN, audio_codec : {"aac", "ac3", ""}] :
        /\ ~i.has_video => (i.video_codec = "" /\ i.small)
        /\ ~i.has_audio => i.audio_codec = ""}

\* convert_video: probed is whether get_video_info returned a VideoInfo,
\* returncode the exit status of ffmpeg if it is run; the result is the
\* value returned, whether ffmpeg ran, and its -c:v and -c:a arguments
convert_video(probed, info, copy, returncode) ==
    LET compat == is_compatible(info)
    IN  IF ~probed
        THEN [ret |-> FALSE, ran |-> FALSE, cmd |-> <<>>]
        ELSE IF copy /\ compat.video /\ compat.audio
        THEN [ret |-> FALSE, ran |-> FALSE, cmd |-> <<>>]
        ELSE [ret |-> returncode = 0,
              ran |-> TRUE,
              cmd |-> << IF compat.video /\ copy THEN "copy"
                         ELSE IF info.small THEN "libx264" ELSE "libx264 scale",
                         IF compat.audio /\ copy THEN "copy" ELSE "aac" >>]

ConvertFiles ==
    {Path("d1", <<"a", ".", "mkv">>), Path("d1", <<"b", ".", "mp4">>),
     Path("d2", <<"a", ".", "mkv">>),
     Path("d1", <<"a", "M", ".", "mp4">>), Path("d2", <<"a", "M", ".", "mp4">>)}

InitConvert ==
    /\ fs \in {F \in SUBSET ConvertFiles : Cardinality(F) <= MaxFiles}
    /\ locked = {}
    /\ call = NoCall
    /\ startup = Started
    /\ copy_if_compatible \in BOOLEAN
    /\ shutdown_flag = FALSE
    /\ queue = <<>>
    /\ items = <<>>
    /\ workers = [w \in Workers |-> [pc |-> "new", item |-> NoItem, probe |-> NoProbe]]
    /\ main = [pc |-> "off", folder |-> 0, files |-> {}, stab |-> NoStab]
    /\ obs = [pc |-> "off", stab |-> NoStab]
    /\ changed = {}

\* success = self.converter.convert_video(file_path, output_path), as the
\* worker calls it: for a path should_process accepted, with the output path
\* of get_output_path; ffmpeg -y writes the output, a failure unlinks it
CallConvert(p, probed, info, returncode) ==
    LET r   == convert_video(probed, info, copy_if_compatible, returncode)
        out == get_output_path(p)
    IN  /\ should_process(p, Files)
        /\ fs' = IF ~r.ran THEN Files
                 ELSE IF r.ret THEN Files \cup {out} ELSE Files \ {out}
        /\ call' = [op |-> "convert_video", input |-> p, output |-> out,
                    probed |-> probed, info |-> info, returncode |-> returncode,
                    ret |-> r.ret, ran |-> r.ran, cmd |-> r.cmd]
        /\ UNCHANGED <<locked, sysvars>>

NextConvert ==
    \E p \in ConvertFiles, probed \in BOOLEAN, info \in ProbedInfos, returncode \in {0, 1} :
        CallConvert(p, probed, info, returncode)

SpecConvert == InitConvert /\ [][NextConvert]_vars

(***************************************************************************)
(* The startup of main(): Config(), config.validate(), the logging and     *)
(* signal setup and the construction of the components, for every          *)
(* environment over Envs.                                                  *)
(***************************************************************************)
\* the environment: MOVIE_FOLDERS unset, or naming one path that is missing,
\* a regular file or a directory; CPU_THRESHOLD, GPU_THRESHOLD, MAX_ENCODES
Envs ==
    [folders : {"unset", "missing", "file", "dir"},
     cpu : {-1, 0, 80, 100, 101},
     gpu : {-1, 80, 101},
     max_encodes : {0, 1, 2}]

\* Config.__init__ raises ValueError("MOVIE_FOLDERS must be set in .env file")
ConfigRaises(env) == env.folders = "unset"

\* Config.validate raises ValueError
ValidateRaises(env) ==
    \/ env.folders = "missing"
    \/ env.folders = "file"
    \/ ~(0 <= env.cpu /\ env.cpu <= 100)
    \/ ~(0 <= env.gpu /\ env.gpu <= 100)
    \/ env.max_encodes < 1

\* the attributes Config.__init__ sets (self.<name> = ...)
ConfigAttributes ==
    {"movie_folders", "max_encodes", "video_codec", "audio_codec", "max_resolution",
     "cpu_threshold", "gpu_threshold", "poll_interval", "copy_if_compatible",
     "log_file", "suffix", "video_extensions"}

\* the attributes main() reads to build the scanner (main.py:249)
ScannerAttributes == {"video_extensions", "suffix", "output_format"}

InitStartup ==
    /\ fs \in {F \in SUBSET SysSources : F # {}}
    /\ locked = {}
    /\ call = NoCall
    /\ startup \in [pc : {"config"}, env : Envs, exit_code : {-1}]
    /\ copy_if_compatible \in BOOLEAN
    /\ shutdown_flag = FALSE
    /\ queue = <<>>
    /\ items = <<>>
    /\ workers = [w \in Workers |-> [pc |-> "new", item |-> NoItem, probe |-> NoProbe]]
    /\ main = [pc |-> "off", folder |-> 0, files |-> {}, stab |-> NoStab]
    /\ obs = [pc |-> "off", stab |-> NoStab]
    /\ changed = {}

StartupFrame ==
    UNCHANGED <<fs, locked, call, copy_if_compatible, queue, items, workers, main, obs,
                changed>>

\* main: config = Config(); except Exception: ... return 1
MainLoadConfig ==
    /\ startup.pc = "config"
    /\ startup' = IF ConfigRaises(startup.env)
                  THEN [startup EXCEPT !.pc = "exited", !.exit_code = 1]
                  ELSE [startup EXCEPT !.pc = "validate"]
    /\ UNCHANGED shutdown_flag
    /\ StartupFrame

\* main: config.validate(); print(config); except Exception: ... return 1
MainValidate ==
    /\ startup.pc = "validate"
    /\ startup' = IF ValidateRaises(startup.env)
                  THEN [startup EXCEPT !.pc = "exited", !.exit_code = 1]
                  ELSE [startup EXCEPT !.pc = "setup"]
    /\ UNCHANGED shutdown_flag
    /\ StartupFrame

\* main: setup_logging and signal.signal(SIGINT / SIGTERM, signal_handler)
MainSetup ==
    /\ startup.pc = "setup"
    /\ startup' = [startup EXCEPT !.pc = "components"]
    /\ UNCHANGED shutdown_flag
    /\ StartupFrame

\* signal_handler, from the moment it is installed
StartupSignal ==
    /\ startup.pc = "components"
    /\ ~shutdown_flag
    /\ shutdown_flag' = TRUE
    /\ UNCHANGED startup
    /\ StartupFrame

\* main: scanner = FileScanner(config.video_extensions, config.suffix,
\* config.output_format).  An attribute Config never set raises AttributeError,
\* which nothing catches: sys.exit(main()) never runs and the interpreter
\* ends with status 1.  Otherwise main() goes on to the initial scan.
MainInitComponents ==
    /\ startup.pc = "components"
    /\ startup' = IF ScannerAttributes \subseteq ConfigAttributes
                  THEN [startup EXCEPT !.pc = "started"]
                  ELSE [startup EXCEPT !.pc = "exited", !.exit_code = 1]
    /\ UNCHANGED shutdown_flag
    /\ StartupFrame

NextStartup ==
    \/ MainLoadConfig
    \/ MainValidate
    \/ MainSetup
    \/ StartupSignal
    \/ MainInitComponents

SpecStartup == InitStartup /\ [][NextStartup]_vars

(***************************************************************************)
(* Claims about the naming policy, the scanner and the orphan reconciler.  *)
(***************************************************************************)
\* the stem of a derivative without its marker
StripMarker(stem) == SubSeq(stem, 1, Len(stem) - Len(Marker))

\* s is a source that d can have been produced from: same directory, a
\* recognized extension, no marker of its own, the stem of d without the marker
IsSourceOf(s, d) ==
    /\ s.dir = d.dir
    /\ is_video_file(s)
    /\ ~is_already_processed(s)
    /\ EndsWith(PathStem(d.name), Marker)
    /\ PathStem(s.name) = StripMarker(PathStem(d.name))

\* f is named stem(p) + marker + "." + some extension, in p's directory
IsDerivativeNameOf(f, p) ==
    LET prefix == PathStem(p.name) \o Marker \o <<".">>
    IN  /\ f.dir = p.dir
        /\ Len(f.name) > Len(prefix)
        /\ SubSeq(f.name, 1, Len(prefix)) = prefix

\* p is a candidate source: it exists, has a recognized extension and no marker
IsCandidate(p, files) ==
    p \in files /\ is_video_file(p) /\ ~is_already_processed(p)

\* C4 (as claimed): a non-dry-run cleanup_orphaned_files pass deletes no
\* derivative d while a source of d (same directory, stem of d without the
\* marker, any recognized extension) exists on disk.
C4_DeletesOnlyOrphans ==
    (call.op = "cleanup" /\ ~call.dry_run) =>
        \A d \in call.deleted : ~\E s \in call.before : IsSourceOf(s, d)

\* C5 (as claimed): an existing path with a recognized extension and no marker
\* is accepted by should_process, and returned by scan_folder, if and only if
\* no file named stem + marker + "." + extension exists in its directory.
C5_EligibleIffNoDerivative ==
    /\ (call.op = "should_process" /\ IsCandidate(call.path, Files)) =>
          (call.ret <=> ~\E f \in Files : IsDerivativeNameOf(f, call.path))
    /\ call.op = "scan_folder" =>
          \A p \in Files : (IsCandidate(p, Files) /\ p.dir = call.folder) =>
              (p \in call.ret <=> ~\E f \in Files : IsDerivativeNameOf(f, p))

\* C6 (as claimed): a second non-dry-run cleanup_orphaned_files pass in a row
\* deletes nothing and returns 0, for every filesystem state.
C6_SecondPassDeletesNothing ==
    (call.op = "cleanup" /\ ~call.dry_run /\ call.again) =>
        (call.deleted = {} /\ call.ret = 0)

\* no file's stem ends with two markers
NoDoubleMarker(files) ==
    \A f \in files : ~EndsWith(PathStem(f.name), Marker \o Marker)

\* C6 (amended): a second non-dry-run cleanup_orphaned_files pass in a row
\* deletes nothing and returns 0, for every filesystem state that holds no
\* file whose stem ends with two markers.
C6_SecondPassDeletesNothingAmended ==
    (call.op = "cleanup" /\ ~call.dry_run /\ call.again /\ NoDoubleMarker(call.before)) =>
        (call.deleted = {} /\ call.ret = 0)

\* C6 witness: two passes in a row, the first deleted an orphan, an orphan that
\* cannot be unlinked is still there, and the second deleted nothing.
C6_Witness ==
    /\ call.op = "cleanup" /\ ~call.dry_run /\ call.again
    /\ NoDoubleMarker(call.before)
    /\ call.first # {}
    /\ \E f \in locked : f \in find_orphaned_files(f.dir, Files)
    /\ call.deleted = {} /\ call.ret = 0

\* C7: get_original_path(get_output_path(p)) lies in p's directory and has p's
\* stem, and get_output_path(p) is recognized as a derivative.
C7_StemRoundTrip ==
    call.op = "naming" =>
        /\ call.back.dir = call.path.dir
        /\ PathStem(call.back.name) = PathStem(call.path.name)
        /\ EndsWith(PathStem(call.out.name), Marker)
        /\ is_pengystream_file(call.out)

\* C7 witness: the round trip of a .mkv source, whose extension does not come back
C7_Witness ==
    /\ call.op = "naming"
    /\ PathSuffix(call.path.name) = <<".", "mkv">>
    /\ call.back # call.path
    /\ PathStem(call.back.name) = PathStem(call.path.name)

\* the orphans cleanup_orphaned_files finds in the watched folders of files
OrphansFound(files) ==
    UNION {find_orphaned_files(movie_folders[i], files) : i \in 1..Len(movie_folders)}

\* C12: a dry-run cleanup_orphaned_files leaves the filesystem as it was and
\* returns the number of orphans found; a non-dry-run pass unlinks every
\* orphan found in every folder, but for those whose unlink raises, and
\* nothing else.
C12_DryRunDeletesNothing ==
    call.op = "cleanup" =>
        IF call.dry_run
        THEN /\ Files = call.before
             /\ call.deleted = {}
             /\ call.ret = Cardinality(OrphansFound(call.before))
        ELSE /\ \A f \in OrphansFound(call.before) : f \in call.deleted \/ f \in locked
             /\ call.deleted \subseteq OrphansFound(call.before)
             /\ Files = call.before \ call.deleted

\* C12 witness: a dry run over an orphan in each folder reported 2 and left
\* both files.
C12_Witness ==
    /\ call.op = "cleanup" /\ call.dry_run
    /\ \E f, g \in OrphansFound(Files) : f.dir = "d1" /\ g.dir = "d2"
    /\ Files = call.before
    /\ call.ret = 2

\* C13: the count a non-dry-run cleanup_orphaned_files returns is the number
\* of files that left the filesystem; an orphan whose unlink raises stays, is
\* not counted, and every other orphan of every folder is unlinked; a lone
\* orphan a-M.mp4 (no a.mkv) is unlinked and the count is 1.
C13_CountsDeletions ==
    (call.op = "cleanup" /\ ~call.dry_run) =>
        /\ call.ret = Cardinality(call.before \ Files)
        /\ call.before \ Files = OrphansFound(call.before) \ locked
        /\ (call.before = {Path("d1", <<"a", "M", ".", "mp4">>)} /\ locked = {}) =>
              (call.ret = 1 /\ Files = {})

\* C13 witness: the unlink of the orphan in d1 raised, the orphan in d2 was
\* unlinked after it, and the count is 1.
C13_Witness ==
    /\ call.op = "cleanup" /\ ~call.dry_run
    /\ \E f \in locked : f.dir = "d1" /\ f \in OrphansFound(call.before) /\ f \in Files
    /\ \E g \in call.deleted : g.dir = "d2"
    /\ call.ret = 1

(***************************************************************************)
(* Claims about the running system.                                        *)
(***************************************************************************)
\* the workers holding item id, and its positions in the queue
HeldBy(id) == {w \in Workers : workers[w].item.id = id}

InQueue(id) == {k \in 1..Len(queue) : queue[k].id = id}

\* C1 (as claimed): the encoder is started at most once for a source path
\* that stays on disk unchanged.
C1_EncodedAtMostOnce ==
    \A p \in SysSources :
        (Exists(p, Files) /\ p \notin changed) =>
            Cardinality(ItemsOf(p, StartedFates)) <= 1

\* C2 (as claimed): once convert_video has returned success for a source p
\* that still exists, should_process(p) is false and scan_folder does not
\* return p, in every later state of the run.
C2_IneligibleAfterSuccess ==
    \A p \in SysSources :
        (ItemsOf(p, {"done"}) # {} /\ Exists(p, Files)) =>
            /\ ~should_process(p, Files)
            /\ p \notin scan_folder(p.dir, Files)

\* C3: an item that was neither discarded as ineligible nor handed to
\* convert_video is in the queue exactly once or held by exactly one worker
\* (never both, never neither): a denial puts it back.
C3_DenialKeepsItem ==
    \A id \in 1..Len(items) :
        items[id].fate = "live" =>
            Cardinality(InQueue(id)) + Cardinality(HeldBy(id)) = 1

\* C3 witness: an item was denied, its worker is in the backoff, no worker
\* holds anything, and the item is in the queue.
C3_Witness ==
    /\ \E w \in Workers : workers[w].pc = "backoff" /\ ~workers[w].probe.ok
    /\ \A w \in Workers : workers[w].item = NoItem
    /\ \E id \in 1..Len(items) : items[id].fate = "live" /\ InQueue(id) # {}

\* C8: no two workers hold the same queue entry, and an entry that a worker
\* holds is not in the queue.
C8_SingleConsumer ==
    \A w1 \in Workers :
        workers[w1].item # NoItem =>
            /\ \A w2 \in Workers \ {w1} : workers[w2].item.id # workers[w1].item.id
            /\ InQueue(workers[w1].item.id) = {}

\* C8 witness: both workers hold an item at the same time, two entries of the
\* same path.
C8_Witness ==
    /\ workers[1].item # NoItem
    /\ workers[2].item # NoItem
    /\ workers[1].item.path = workers[2].item.path

\* the usage sampled by worker w is above a threshold
OverThreshold(w) ==
    workers[w].probe.cpu > cpu_threshold \/ workers[w].probe.gpu > gpu_threshold

\* C9, the result: can_encode() returned (False, a reason) exactly when a
\* sampled usage was strictly above its threshold, and (True, ...) otherwise.
C9_Result ==
    \A w \in Workers :
        workers[w].pc = "decide" =>
            /\ (~workers[w].probe.ok /\ workers[w].probe.reason # "") <=> OverThreshold(w)
            /\ workers[w].probe.ok <=> ~OverThreshold(w)

\* C9, the step after it: the worker whose sample was above a threshold puts
\* its item back in the queue and enters the backoff.
C9_Step ==
    \A w \in Workers :
        (workers[w].pc = "decide" /\ OverThreshold(w) /\ workers'[w] # workers[w]) =>
            /\ workers'[w].pc = "backoff"
            /\ \E k \in 1..Len(queue') : queue'[k] = workers[w].item

\* C9: can_encode() denies exactly when the sampled CPU or GPU usage is
\* strictly greater than its threshold, and the denied item is back in the
\* queue when the backoff begins.
C9_DeniesAboveThreshold == [](C9_Result) /\ [][C9_Step]_vars

\* C9 witness: CPU 95 against the threshold 80 was denied, the worker is in
\* its backoff and the item is in the queue.
C9_Witness ==
    \E w \in Workers :
        /\ workers[w].pc = "backoff"
        /\ workers[w].probe.cpu = 95
        /\ ~workers[w].probe.ok
        /\ queue # <<>>

\* C10 (as claimed): in no state after shutdown_flag has been set does a
\* worker dequeue an item.
C10_NoGetAfterShutdown ==
    [][shutdown_flag => \A w \in Workers :
          ~(workers[w].item = NoItem /\ workers'[w].item # NoItem)]_vars

\* the stem of p ends with the marker token
CarriesMarker(p) == EndsWith(PathStem(p.name), Marker)

\* C15: no path whose stem ends with the marker was ever put in the queue by
\* the initial scan or the watcher, none is in the queue, and none is held by
\* a worker (so none is handed to convert_video as its input).
C15_MarkerNeverSource ==
    /\ \A i \in 1..Len(items) : ~CarriesMarker(items[i].path)
    /\ \A k \in 1..Len(queue) : ~CarriesMarker(queue[k].path)
    /\ \A w \in Workers : workers[w].item # NoItem => ~CarriesMarker(workers[w].item.path)

\* C15 witness: an encode has written its output, a path with the marker, into
\* the watched folder while the observer runs; only sources were queued.
C15_Witness ==
    /\ obs.pc = "idle"
    /\ \E i \in 1..Len(items) :
          /\ items[i].fate \in {"encoding", "done"}
          /\ Exists(get_output_path(items[i].path), Files)
          /\ CarriesMarker(get_output_path(items[i].path))
    /\ \A i \in 1..Len(items) : ~CarriesMarker(items[i].path)

\* worker w calls convert_video in this step
CallsConvert(w) ==
    /\ workers[w].item # NoItem
    /\ items[workers[w].item.id].fate = "live"
    /\ items'[workers[w].item.id].fate \in {"refused", "encoding"}

\* C16, the steps of one iteration: convert_video is called only by a worker
\* whose can_encode() has just allowed; can_encode() is asked only by a
\* worker whose should_process on the item it holds has just returned true;
\* and a worker whose should_process returns false lets go of the item,
\* leaving the queue as it is.
C16_Step ==
    \A w \in Workers :
        /\ CallsConvert(w) => (workers[w].pc = "decide" /\ workers[w].probe.ok)
        /\ (workers'[w].pc = "decide" /\ workers[w].pc # "decide") =>
              (workers[w].pc = "admit" /\ workers'[w].item = workers[w].item)
        /\ (workers'[w].pc = "admit" /\ workers[w].pc # "admit") =>
              /\ workers[w].pc = "check"
              /\ should_process(workers[w].item.path, Files)
              /\ workers'[w].item = workers[w].item
        /\ (workers[w].pc = "check" /\ workers'[w] # workers[w]
                /\ ~should_process(workers[w].item.path, Files)) =>
              /\ workers'[w].item = NoItem
              /\ workers'[w].pc = "loop"
              /\ items'[workers[w].item.id].fate = "skipped"
              /\ queue' = queue

\* C16, the discarded item: an item dropped by the re-validation is in no
\* queue and held by no worker.
C16_Discarded ==
    \A id \in 1..Len(items) :
        items[id].fate = "skipped" => (InQueue(id) = {} /\ HeldBy(id) = {})

\* C16: convert_video is called for a dequeued item only after should_process
\* and then can_encode() allowed it in the same iteration; an item failing
\* the re-validation is dropped, never encoded and never put back.
C16_EncoderOnlyAfterChecks == [](C16_Discarded) /\ [][C16_Step]_vars

\* C16 witness: one entry of a path is being encoded after both checks while
\* another entry of the same path was dropped by the re-validation.
C16_Witness ==
    \E i, j \in 1..Len(items) :
        /\ items[i].fate = "encoding"
        /\ items[j].fate = "skipped"
        /\ items[i].path = items[j].path
        /\ InQueue(j) = {}

\* the encoder runs (ffmpeg) that have begun and not returned
InProgress == {i \in 1..Len(items) : items[i].fate = "encoding"}

\* C17: at most max_encodes encoder runs are in progress, each in a worker of
\* its own; there are exactly max_encodes workers, and once main() has
\* started them every one of them has been started.
C17_AtMostNEncodes ==
    /\ Cardinality(InProgress) <= max_encodes
    /\ \A i \in InProgress : \E w \in Workers :
          workers[w].pc = "ffmpeg" /\ workers[w].item.id = i
    /\ DOMAIN workers = 1..max_encodes
    /\ main.pc # "start_workers" => \A w \in Workers : workers[w].pc # "new"

\* C17 witness: every worker is running the encoder and a further eligible
\* item waits in the queue.
C17_Witness ==
    /\ Cardinality(InProgress) = max_encodes
    /\ \E k \in 1..Len(queue) :
          items[queue[k].id].fate = "live" /\ should_process(queue[k].path, Files)

\* C18, the queue: an item is handed out only to a worker at its get, it is
\* the head of the queue and leaves it; every put appends at the tail, so
\* the queue changes only by losing its head or gaining a tail.
C18_Fifo ==
    /\ \A w \in Workers :
          (workers[w].item = NoItem /\ workers'[w].item # NoItem) =>
              /\ workers[w].pc = "get"
              /\ queue # <<>>
              /\ workers'[w].item = Head(queue)
              /\ queue' = Tail(queue)
    /\ queue' # queue =>
          \/ queue # <<>> /\ queue' = Tail(queue)
          \/ Len(queue') = Len(queue) + 1 /\ SubSeq(queue', 1, Len(queue)) = queue

\* C18, the denial: the denied item is put behind everything that is in the
\* queue, and the worker holds nothing and takes nothing while in its backoff.
C18_Requeue ==
    \A w \in Workers :
        /\ (workers[w].pc = "decide" /\ ~workers[w].probe.ok /\ workers'[w] # workers[w]) =>
              /\ queue' = Append(queue, workers[w].item)
              /\ workers'[w].pc = "backoff"
        /\ workers[w].pc = "backoff" =>
              /\ workers'[w].item = NoItem
              /\ workers'[w].pc \in {"backoff", "loop"}
              /\ (workers'[w] # workers[w] => queue' = queue)

\* C18: the queue is first-in first-out, a denied item re-enters at its
\* tail, and the denying worker takes nothing from the queue before its
\* backoff is over.
C18_FifoTailRequeue == [][C18_Fifo /\ C18_Requeue]_vars

\* C18 witness: a worker is in its backoff and the item it was denied, the
\* older one, is in the queue behind a newer one.
C18_Witness ==
    /\ \E w \in Workers : workers[w].pc = "backoff" /\ ~workers[w].probe.ok
    /\ Len(queue) = 2
    /\ queue[2].id < queue[1].id

\* no worker has a denial of can_encode() in hand
NoDenial == \A w \in Workers : workers[w].probe.ok

\* item id waits: it was put and has neither been dropped nor handed on
Waiting(id) == id <= Len(items) /\ items[id].fate = "live"

\* item id was handed to convert_video
Handed(id) ==
    id <= Len(items) /\ items[id].fate \in {"refused", "encoding", "done", "failed"}

\* item id was dropped by the re-validation: should_process returned false
Dropped(id) == id <= Len(items) /\ items[id].fate = "skipped"

\* no item waits any more, in the queue or in a worker's hands: each was
\* handed to convert_video, or dropped when its source was no longer eligible
AllSettled ==
    /\ queue = <<>>
    /\ \A id \in 1..Len(items) : Handed(id) \/ Dropped(id)

EncodersReturn == \A w \in Workers : []<>(workers[w].pc # "ffmpeg")

EncoderFails(w) ==
    /\ workers[w].item # NoItem
    /\ items[workers[w].item.id].fate = "encoding"
    /\ items'[workers[w].item.id].fate = "failed"

\* convert_video returns False for the item worker w holds before ffmpeg ran
EncoderRefuses(w) ==
    /\ workers[w].item # NoItem
    /\ items[workers[w].item.id].fate = "live"
    /\ items'[workers[w].item.id].fate = "refused"

\* C20, the step: when the encoder fails, the worker lets go of the item
\* without putting it back, no file is left at the derivative path, and the
\* source, if it is still on disk, is eligible; when the encoder gives up
\* before running ffmpeg, the item is let go the same way and no file is
\* written or removed.
C20_Step ==
    \A w \in Workers :
        /\ EncoderFails(w) =>
              /\ workers'[w].item = NoItem
              /\ queue' = queue
              /\ ~Exists(get_output_path(workers[w].item.path), fs')
              /\ Exists(workers[w].item.path, fs') =>
                    should_process(workers[w].item.path, fs')
        /\ EncoderRefuses(w) =>
              /\ workers'[w].item = NoItem
              /\ queue' = queue
              /\ fs' = fs

\* C20, afterwards: an item whose encode failed is in no queue and in no
\* worker's hands.
C20_Dropped ==
    \A id \in 1..Len(items) :
        items[id].fate \in {"failed", "refused"} => (InQueue(id) = {} /\ HeldBy(id) = {})

\* C20: an item whose encoder run failed is dropped, not requeued and not
\* retried, and the failed run leaves no file at the derivative path, so the
\* source is still eligible.
C20_FailureDropsItem == [](C20_Dropped) /\ [][C20_Step]_vars

\* C20 witness: the only encode of a source failed; the source is on disk
\* and eligible, nothing is queued and no worker holds anything.
C20_Witness ==
    \E id \in 1..Len(items) :
        /\ items[id].fate = "failed"
        /\ Len(items) = 1
        /\ Exists(items[id].path, Files)
        /\ should_process(items[id].path, Files)
        /\ queue = <<>>
        /\ \A w \in Workers : workers[w].item = NoItem

\* C23 (as claimed): in no state after shutdown_flag has been set does the
\* event handler put a path into the queue.
C23_NoPutAfterShutdown ==
    [][(shutdown_flag /\ obs.pc = "stab") => Len(items') = Len(items)]_vars

\* C24 (as claimed): when the final cleanup_orphaned_files pass of main()
\* starts, no worker is inside convert_video's ffmpeg run.
C24_FinalCleanupAfterDrain ==
    main.pc = "final_cleanup" => \A w \in Workers : workers[w].pc # "ffmpeg"

\* C28 (as claimed): the periodic cleanup_orphaned_files pass of the main
\* loop leaves on disk the output file of every ffmpeg run in progress whose
\* source exists.
C28_CleanupSparesEncodeInProgress ==
    [][main.pc = "tick" =>
          \A w \in Workers :
              (/\ workers[w].pc = "ffmpeg"
               /\ Exists(workers[w].item.path, Files)
               /\ Exists(get_output_path(workers[w].item.path), Files))
              => Exists(get_output_path(workers[w].item.path), fs')]_vars

\* C26: a path is put in the queue by the initial scan or by the event
\* handler only from is_file_stable returning True for it (the file exists
\* at the second sample with the size of the first), is_file_stable is
\* entered only for a path that scan_folder returned or should_process
\* accepted and that exists at the first sample, and a path whose
\* is_file_stable returns False is not queued.
C26_Put ==
    Len(items') > Len(items) =>
        /\ Len(items') = Len(items) + 1
        /\ \E who \in {"main", "obs"} :
              LET old  == IF who = "main" THEN main ELSE obs
                  new  == IF who = "main" THEN main' ELSE obs'
              IN  /\ old.pc = "stab" /\ new.pc # "stab"
                  /\ items'[Len(items')].path = old.stab.path
                  /\ Exists(old.stab.path, Files)
                  /\ ~old.stab.resized

C26_Sampled ==
    /\ (main.pc # "stab" /\ main'.pc = "stab") =>
          /\ main'.stab.path \in main.files
          /\ Exists(main'.stab.path, Files)
    /\ (obs.pc # "stab" /\ obs'.pc = "stab") =>
          /\ should_process(obs'.stab.path, Files)
          /\ Exists(obs'.stab.path, Files)

C26_Filtered ==
    main'.files # main.files =>
        \/ main'.files \subseteq main.files
        \/ \A p \in main'.files : should_process(p, Files)

C26_Rejected ==
    /\ (main.pc = "stab" /\ main'.pc # "stab" /\ ~SecondSample(main.stab)) =>
          UNCHANGED <<queue, items>>
    /\ (obs.pc = "stab" /\ obs'.pc # "stab" /\ ~SecondSample(obs.stab)) =>
          UNCHANGED <<queue, items>>

C26_QueuedOnlyIfEligibleAndStable ==
    [][C26_Put /\ C26_Sampled /\ C26_Filtered /\ C26_Rejected]_vars

\* a path queued by discovery, and the event handler holding a candidate
\* whose size changed during is_file_stable's sleep
C26_Witness ==
    /\ Len(items) >= 1
    /\ obs.pc = "stab"
    /\ obs.stab.resized

(***************************************************************************)
(* Claims about crash and restart.                                         *)
(***************************************************************************)
\* C11 (as claimed): after a crash and restart, a source that is on disk and
\* whose only encode was cut short by the crash is returned by the initial
\* scan's scan_folder (it is eligible again), and a source for which
\* convert_video returned success and whose derivative is on disk is not.
C11_RestartRederivesEligibility ==
    \A p \in SysSources :
        /\ (/\ Exists(p, Files)
            /\ ItemsOf(p, {"crashed"}) # {}
            /\ ItemsOf(p, {"encoding", "done"}) = {})
           => p \in scan_folder(p.dir, Files)
        /\ (/\ Exists(p, Files)
            /\ ItemsOf(p, {"done"}) # {}
            /\ Exists(get_output_path(p), Files))
           => p \notin scan_folder(p.dir, Files)

(***************************************************************************)
(* Claims about shutdown.                                                  *)
(***************************************************************************)
\* main() is past observer.join()
ObserverJoined == main.pc \in {"join_workers", "final_cleanup", "done"}

\* the steps of main() from the end of its loop on: stop, join, join with
\* timeout, one cleanup, return
C25_Step ==
    /\ main.pc = "stop_observer" => main'.pc \in {"stop_observer", "join_observer"}
    /\ main.pc = "join_observer" => main'.pc \in {"join_observer", "join_workers"}
    /\ main.pc = "join_workers" => main'.pc \in {"join_workers", "final_cleanup"}
    /\ main.pc = "final_cleanup" =>
          \/ main'.pc = "final_cleanup"
          \/ main'.pc = "done" /\ MainFinalCleanup
    /\ main.pc = "done" => UNCHANGED vars

\* C25: once shutdown_flag is set main() reaches its return: the observer is
\* stopped and joined, the join of the workers ends whatever the workers do,
\* cleanup_orphaned_files runs once, and nothing happens afterwards.
C25_ShutdownCompletes ==
    /\ shutdown_flag ~> (main.pc = "done")
    /\ [](ObserverJoined => obs.pc = "stopped")
    /\ [][C25_Step]_vars

\* main() has returned while a worker is inside ffmpeg and the queue is not
\* empty
C25_Witness ==
    /\ main.pc = "done"
    /\ shutdown_flag
    /\ queue # <<>>
    /\ \E w \in Workers : workers[w].pc = "ffmpeg"

(***************************************************************************)
(* Claims about failures during a scan.                                    *)
(***************************************************************************)
\* the directories a failure of the call affects: the directory that could
\* not be listed, or the directory of the file whose check raised, and
\* everything below them
Affected(d) ==
    \/ Ancestors(d) \cap call.unreadable # {}
    \/ \E f \in call.raising : f.dir \in Ancestors(d)

\* C22 (as claimed): whatever fails during scan_folder(folder), the result
\* contains every eligible file of the folder that lies in no affected
\* subtree.
C22_FailureLosesOnlyItsSubtree ==
    call.op = "scan_folder" =>
        \A f \in scan_folder(call.folder, Files) :
            ~Affected(f.dir) => f \in call.ret

\* the part of C22 about directories that cannot be listed
C22_UnreadableLosesOnlyItsSubtree ==
    (call.op = "scan_folder" /\ call.raising = {}) =>
        \A f \in scan_folder(call.folder, Files) :
            ~Affected(f.dir) => f \in call.ret

(***************************************************************************)
(* Claims about exceptions in a worker.                                    *)
(***************************************************************************)
Raised(w) ==
    /\ workers[w].item # NoItem
    /\ items[workers[w].item.id].fate # "error"
    /\ items'[workers[w].item.id].fate = "error"

\* C21: an exception raised by should_process, can_encode or convert_video
\* for the item a worker holds ends no worker (a worker leaves its loop only
\* once shutdown is signalled), takes nothing out of the queue and leaves
\* the other workers and every other item as they are; the worker that
\* caught it is back at the top of its loop.
C21_Step ==
    \A w \in Workers :
        Raised(w) =>
            /\ workers'[w].pc = "loop"
            /\ \A v \in Workers \ {w} : workers'[v] = workers[v]
            /\ queue' = queue
            /\ \A id \in 1..Len(items) :
                  id # workers[w].item.id => items'[id] = items[id]

C21_ErrorsStayInTheWorker ==
    /\ [](\A w \in Workers : workers[w].pc = "stopped" => shutdown_flag)
    /\ [][C21_Step]_vars

\* after an exception for one item, a worker encodes a later item while
\* shutdown is not signalled
C21_Witness ==
    /\ ~shutdown_flag
    /\ \E id \in 1..Len(items) :
          /\ items[id].fate = "error"
          /\ \E later \in (id + 1)..Len(items), w \in Workers :
                /\ workers[w].pc = "ffmpeg"
                /\ workers[w].item.id = later

(***************************************************************************)
(* Claims about convert_video.                                             *)
(***************************************************************************)
\* C27 (as claimed): with copy_if_compatible set, convert_video of a source
\* whose video and audio streams are both compatible (and for which ffmpeg
\* would exit with 0) returns True and leaves the output file, so that
\* should_process no longer accepts the source.
C27_CompatibleIsCopied ==
    (/\ call.op = "convert_video"
     /\ copy_if_compatible
     /\ call.probed
     /\ call.returncode = 0
     /\ is_compatible(call.info).video
     /\ is_compatible(call.info).audio)
    => /\ call.ret
       /\ Exists(call.output, Files)
       /\ ~should_process(call.input, Files)

(***************************************************************************)
(* Claims about the startup.                                               *)
(***************************************************************************)
\* the configurations the claim lists as failing validation
InvalidConfig(env) ==
    \/ env.folders \in {"unset", "missing", "file"}
    \/ env.cpu < 0 \/ env.cpu > 100
    \/ env.gpu < 0 \/ env.gpu > 100
    \/ env.max_encodes < 1

\* no initial scan, worker, watcher or reconciler has been started
NothingStarted ==
    /\ main.pc = "off"
    /\ \A w \in Workers : workers[w].pc = "new"
    /\ obs.pc = "off"
    /\ queue = <<>>

\* C14 (as claimed): a process that has exited returned non-zero, with nothing
\* started, if its configuration fails validation; a process whose
\* configuration passes validation exits only with code 0, and a configuration
\* that passes validation gets past the startup.
C14_ExitCodes ==
    /\ (startup.pc = "exited" /\ InvalidConfig(startup.env)) =>
          (startup.exit_code # 0 /\ NothingStarted)
    /\ (startup.pc = "exited" /\ ~InvalidConfig(startup.env)) =>
          startup.exit_code = 0

====
